---- MODULE Spec2Model ----
(***************************************************************************)
(* Model of auto_release_tool: the step-execution / rollback engine        *)
(* (ProcessManager) and its two process definitions (VersionManager,       *)
(* ErrorManager).  One engine instance is constructed in Init and then     *)
(* run repeatedly.  A run is split into its blocking steps: the prologue   *)
(* (reset, validation, step list), one forward step per loop iteration,    *)
(* one rollback-loop iteration per successful result.                      *)
(*                                                                         *)
(* Text is a sequence of one-character strings so that the two regular     *)
(* expressions of version_manager.py are computed, not assumed.            *)
(***************************************************************************)
EXTENDS Integers, Sequences, FiniteSets, TLC

\* Python's None, and None where a str is expected (no text of the model is
\* empty, so the empty text is free to stand for it).
None == "None"
NoText == <<>>

\* Longest step list a generic process definition supplies.
MaxSteps == 4
\* Number of run() calls made on the one engine instance.
MaxRuns == 2
\* Number of commits another actor pushes to the shared remote.
MaxOtherPushes == 1

(***************************************************************************)
(* Text and the two regular expressions                                    *)
(***************************************************************************)
Digits == {"0", "1", "2", "3", "4", "5", "6", "7", "8", "9"}

\* End (exclusive) of the maximal run of \d starting at position i of s.
DigitRun(s, i) ==
    CHOOSE e \in i..(Len(s) + 1) :
        /\ \A k \in i..(e - 1) : s[k] \in Digits
        /\ (e = Len(s) + 1 \/ s[e] \notin Digits)

\* Position just after a match of \d+\.\d+\.\d+ anchored at position 1 of s
\* (the repetitions are greedy and cannot give back a digit to "." or to
\* what follows), 0 when there is no match.
SemverEnd(s) ==
    LET a == DigitRun(s, 1) IN
    IF a = 1 \/ a > Len(s) \/ s[a] # "." THEN 0
    ELSE LET b == DigitRun(s, a + 1) IN
         IF b = a + 1 \/ b > Len(s) \/ s[b] # "." THEN 0
         ELSE LET c == DigitRun(s, b + 1) IN
              IF c = b + 1 THEN 0 ELSE c

\* The release format {MAJOR}.{MINOR}.{PATCH}: digits, dot, digits, dot,
\* digits and nothing else.
IsMajorMinorPatch(s) == SemverEnd(s) # 0 /\ SemverEnd(s) = Len(s) + 1

\* bool(VERSION_PATTERN.match(version)) for ^\d+\.\d+\.\d+$ : Python's "$"
\* matches at the end of the string and also just before a newline that is
\* the last character.
VERSION_PATTERN_match(version) ==
    LET e == SemverEnd(version) IN
    /\ e # 0
    /\ \/ e = Len(version) + 1
       \/ (e = Len(version) /\ version[e] = "\n")

\* The manifest text is a sequence of lines  version = "<token>" ; a line is
\* held by its token.  PYPROJECT_VERSION_PATTERN matches in a line exactly
\* when the closing quote follows the third digit run.
PYPROJECT_matches(token) == SemverEnd(token) # 0 /\ SemverEnd(token) = Len(token) + 1

\* PYPROJECT_VERSION_PATTERN.search(content) is not None
PYPROJECT_search(content) == \E k \in DOMAIN content : PYPROJECT_matches(content[k])

\* match.group(0).split('"')[1] of the first match
PYPROJECT_first(content) ==
    LET k == CHOOSE n \in DOMAIN content :
                 /\ PYPROJECT_matches(content[n])
                 /\ \A m \in 1..(n - 1) : ~PYPROJECT_matches(content[m])
    IN content[k]

\* PYPROJECT_VERSION_PATTERN.sub(f'version = "{token}"', content): every
\* match is replaced.
PYPROJECT_sub(token, content) ==
    [k \in DOMAIN content |->
        IF PYPROJECT_matches(content[k]) THEN token ELSE content[k]]

\* The manifest's version token as the tool reads it: the first match.
VersionToken(content) ==
    IF PYPROJECT_search(content) THEN PYPROJECT_first(content) ELSE NoText

V100 == <<"1", ".", "0", ".", "0">>
V390 == <<"3", ".", "9", ".", "0">>
V123 == <<"1", ".", "2", ".", "3">>
V12 == <<"1", ".", "2">>
V123NL == <<"1", ".", "2", ".", "3", "\n">>

\* Version arguments given to VersionManager.run.
Versions == {V123, V12, V123NL}

\* pyproject.toml as found at construction: no version line, one, or two
\* (a second table carrying its own  version = "..."  line).
InitManifests == {<<>>, <<V100>>, <<V100, V390>>}

(***************************************************************************)
(* Step and StepResult                                                     *)
(***************************************************************************)
\* Step(func, description, rollback_func); the description is the step's
\* position in its list (0 for the validation pseudo-step).
Step(func, description, rollback_func) ==
    [func |-> func, description |-> description, rollback_func |-> rollback_func]

\* StepResult(step, success, message, exception); the message is console
\* text and is left out.  made_in is the number of the run that built the
\* record (history, not a field of the program).
StepResult(step, success, exception, made_in) ==
    [step |-> step, success |-> success, exception |-> exception, made_in |-> made_in]

\* What a call can yield: a returned value, or a raised Exception.
Outcomes == <<"True", "False", "None", "raise">>

\* bool(success) of a returned value
Truthy(out) == out = "True"

(***************************************************************************)
(* Process definitions                                                     *)
(***************************************************************************)
Kinds == {"ProcessManager", "Generic", "VersionManager", "ErrorManager"}

\* The step lists a generic process definition (any subclass written against
\* the engine) can supply: every step has a forward action, each has or
\* lacks a compensating action.
GenericStepLists ==
    UNION {{[k \in 1..n |-> Step("action", k, IF f[k] THEN "compensate" ELSE None)] :
                f \in [1..n -> BOOLEAN]} : n \in 0..MaxSteps}

VersionManager_get_steps ==
    << Step("_update_version", 1, "_rollback_version_update"),
       Step("_commit_changes", 2, "_rollback_commit"),
       Step("_create_git_tag", 3, "_rollback_git_tag") >>

ErrorManager_get_steps ==
    << Step("_run_sourcery", 1, None),
       Step("_run_pytest", 2, None) >>

\* The base class supplies no step.
ProcessManager_get_steps == <<>>

\* self._get_steps() by dynamic dispatch.
_get_steps(k, own) ==
    CASE k = "ProcessManager" -> ProcessManager_get_steps
      [] k = "Generic" -> own
      [] k = "VersionManager" -> VersionManager_get_steps
      [] k = "ErrorManager" -> ErrorManager_get_steps

\* A validation yields "pass" or "fail", the success flag of the StepResult
\* it returns, or "raise" when the call raises instead of returning.
ProcessManager_validate_input == "pass"

VersionManager_validate_input(version) ==
    IF VERSION_PATTERN_match(version) THEN "pass" ELSE "fail"

ErrorManager_validate_input == "raise"

\* self._validate_input(*args) by dynamic dispatch; verdict is what a
\* generic definition's own validation decides.
_validate_input(k, version, verdict) ==
    CASE k = "ProcessManager" -> ProcessManager_validate_input
      [] k = "Generic" -> verdict
      [] k = "VersionManager" -> VersionManager_validate_input(version)
      [] k = "ErrorManager" -> ErrorManager_validate_input

(***************************************************************************)
(* Forward and compensating actions.  Each yields an outcome and the       *)
(* manifest and repository it leaves.  fail selects which collaborator     *)
(* call fails (0: none).                                                   *)
(***************************************************************************)
Effect(out, m, g) == [out |-> out, manifest |-> m, git |-> g]

Commit(msg, tree) == [msg |-> msg, tree |-> tree]

Front(s) == SubSeq(s, 1, Len(s) - 1)

Last(s) == s[Len(s)]

IsPrefix(a, b) == Len(a) <= Len(b) /\ a = SubSeq(b, 1, Len(a))

\* git push: the remote branch takes the local one when that only adds
\* commits to it; otherwise the push is rejected.
FastForward(g) == IsPrefix(g.remote, g.local)

_update_version(version, fail, m, g) ==
    IF fail = 1 THEN Effect("False", m, g)
    ELSE IF ~PYPROJECT_search(m) THEN Effect("False", m, g)
    ELSE IF fail = 2 THEN Effect("False", m, g)
    ELSE Effect("True", PYPROJECT_sub(version, m), g)

\* Variant: the compensation reports success without writing the manifest.
_rollback_version_update_unwritten(original, fail, m, g) ==
    IF original = NoText THEN Effect("False", m, g)
    ELSE IF fail # 0 THEN Effect("False", m, g)
    ELSE Effect("True", m, g)

\* Variant: the compensation does not look whether an original version
\* was stored.
_rollback_version_update_unguarded(original, fail, m, g) ==
    IF fail # 0 THEN Effect("False", m, g)
    ELSE Effect("True", PYPROJECT_sub(original, m), g)

_rollback_version_update(original, fail, m, g) ==
    IF original = NoText THEN Effect("False", m, g)
    ELSE IF fail # 0 THEN Effect("False", m, g)
    ELSE Effect("True", PYPROJECT_sub(original, m), g)

\* Variant: a commit whose push fails is taken back before returning.
_commit_changes_undone(version, fail, m, g) ==
    IF fail \in {1, 2, 3} THEN Effect("False", m, g)
    ELSE LET committed == [g EXCEPT !.local = Append(@, Commit(version, m))] IN
         IF fail = 4 \/ ~FastForward(committed) THEN Effect("False", m, g)
         ELSE Effect("True", m, [committed EXCEPT !.remote = committed.local])

_commit_changes(version, fail, m, g) ==
    IF fail \in {1, 2, 3} THEN Effect("False", m, g)
    ELSE LET committed == [g EXCEPT !.local = Append(@, Commit(version, m))] IN
         IF fail = 4 \/ ~FastForward(committed) THEN Effect("False", m, committed)
         ELSE Effect("True", m, [committed EXCEPT !.remote = committed.local])

\* Variant: the push of the rollback is refused when the remote branch is
\* no longer the commit this repository pushed (--force-with-lease).
_rollback_commit_with_lease(version, fail, m, g) ==
    IF fail = 1 \/ Len(g.local) < 2 THEN Effect("False", m, g)
    ELSE LET reset == [g EXCEPT !.local = Front(@)]
             tree == Last(reset.local).tree
         IN IF fail = 2 \/ g.remote # g.local THEN Effect("False", tree, reset)
            ELSE Effect("True", tree, [reset EXCEPT !.remote = reset.local])

_rollback_commit(version, fail, m, g) ==
    IF fail = 1 \/ Len(g.local) < 2 THEN Effect("False", m, g)
    ELSE LET reset == [g EXCEPT !.local = Front(@)]
             tree == Last(reset.local).tree
         IN IF fail = 2 THEN Effect("False", tree, reset)
            ELSE Effect("True", tree, [reset EXCEPT !.remote = reset.local])

_create_git_tag(version, fail, m, g) ==
    IF fail = 1 \/ version \in g.ltags THEN Effect("False", m, g)
    ELSE LET tagged == [g EXCEPT !.ltags = @ \cup {version}] IN
         IF fail = 2 THEN Effect("False", m, tagged)
         ELSE Effect("True", m, [tagged EXCEPT !.rtags = @ \cup {version}])

_rollback_git_tag(version, fail, m, g) ==
    IF fail = 1 \/ version \notin g.ltags THEN Effect("False", m, g)
    ELSE LET deleted == [g EXCEPT !.ltags = @ \ {version}] IN
         IF fail = 2 THEN Effect("False", m, deleted)
         ELSE Effect("True", m, [deleted EXCEPT !.rtags = @ \ {version}])

\* How many ways a callable can go besides the first (for the generic
\* callables: which of Outcomes it yields).
Ways(f) ==
    CASE f \in {"action", "compensate"} -> 3
      [] f \in {"_update_version", "_rollback_version_update"} -> 2
      [] f = "_commit_changes" -> 4
      [] f \in {"_rollback_commit", "_create_git_tag", "_rollback_git_tag"} -> 2
      [] OTHER -> 0

\* f(*args) for a step's func or rollback_func.
Call(f, version, original, fail, m, g) ==
    CASE f \in {"action", "compensate"} -> Effect(Outcomes[fail + 1], m, g)
      [] f \in {"_run_sourcery", "_run_pytest"} -> Effect("raise", m, g)
      [] f = "_update_version" -> _update_version(version, fail, m, g)
      [] f = "_rollback_version_update" -> _rollback_version_update(original, fail, m, g)
      [] f = "_commit_changes" -> _commit_changes(version, fail, m, g)
      [] f = "_rollback_commit" -> _rollback_commit(version, fail, m, g)
      [] f = "_create_git_tag" -> _create_git_tag(version, fail, m, g)
      [] f = "_rollback_git_tag" -> _rollback_git_tag(version, fail, m, g)

(***************************************************************************)
(* State                                                                   *)
(***************************************************************************)
VARIABLES
    kind,               \* class of the engine instance
    own,                \* step list a Generic definition supplies
    _original_version,  \* VersionManager._original_version
    manifest,           \* pyproject.toml: the tokens of its version lines
    git,                \* local branch, remote branch, local tags, remote tags
    _results,           \* ProcessManager._results
    successful_steps,   \* run's local successful_steps
    steps,              \* run's local steps
    i,                  \* position of run's for loop in steps
    pending,            \* what is left of reversed(executed_steps) in _rollback
    version,            \* the argument of the run in progress
    pc,                 \* "idle" (no run in progress), "loop", "rollback"
    ret,                \* what the last run gave its caller: "True", "False",
                        \* or "raised" when an exception left run instead
    runNo,              \* number of run calls made so far (history)
    calls,              \* calls made by the current or last run (history)
    earlier,            \* steps that succeeded in a run before this one (history)
    constructed,        \* the manifest as __init__ found it (history)
    before,             \* the manifest as the current or last run found it (history)
    view,               \* what the caller got from the results property
    foreign,            \* the pushes of another actor to the remote (history)
    repo_before         \* the repository as the current or last run found it (history)

vars == << kind, own, _original_version, manifest, git, _results, successful_steps,
           steps, i, pending, version, pc, ret, runNo, calls, earlier, constructed,
           before, repo_before, view, foreign >>

\* A call of the log: what was called, for which step (0: none), which
\* collaborator call failed in it (0: none) and what it yielded.
Event(op, step, fail, out) == [op |-> op, step |-> step, fail |-> fail, out |-> out]

\* The calls of one kind in the log, in order.
CallsOf(op) == SelectSeq(calls, LAMBDA e : e.op = op)

\* The steps whose forward action returned True in the current or last run.
SucceededNow == {e.step : e \in {calls[k] : k \in {n \in DOMAIN calls :
                                   calls[n].op = "func" /\ calls[n].out = "True"}}}

(***************************************************************************)
(* The engine's pieces                                                     *)
(***************************************************************************)
\* Variant: success means only that the action did not raise.
_execute_step_return_ignored(step, out, n) ==
    IF out = "raise"
    THEN StepResult(step, FALSE, "Exception", n)
    ELSE StepResult(step, TRUE, None, n)

\* Variant: the except branch drops the captured exception.
_execute_step_detail_lost(step, out, n) ==
    StepResult(step, out = "True", None, n)

\* Variant: a falsy return is recorded with an exception, as a raise is.
_execute_step_channels_merged(step, out, n) ==
    IF Truthy(out)
    THEN StepResult(step, TRUE, None, n)
    ELSE StepResult(step, FALSE, "Exception", n)

\* The StepResult _execute_step builds from what step.func yielded.
_execute_step(step, out, n) ==
    IF out = "raise"
    THEN StepResult(step, FALSE, "Exception", n)
    ELSE StepResult(step, Truthy(out), None, n)

\* Variant: the failed result is kept with the successful ones.
record_always(successful, result) == Append(successful, result)

\* if result.success: successful_steps.append(result)
record_success(successful, result) ==
    IF result.success THEN Append(successful, result) ELSE successful

\* Variant: rollback is called as soon as any step has succeeded.
any_successful(successful) == successful # <<>>

\* any(s.step.rollback_func is not None for s in successful_steps)
any_rollback(successful) ==
    \E k \in DOMAIN successful : successful[k].step.rollback_func # None

\* Variant: the successful results walked oldest first.
oldest_first(executed) == executed

\* reversed(executed_steps)
reversed(executed) == [k \in 1..Len(executed) |-> executed[Len(executed) + 1 - k]]

\* Variant: a raising compensating action is not caught.
rollback_report_uncaught(out) ==
    CASE out = "raise" -> "escaped"
      [] out = "True" -> "successful"
      [] OTHER -> "failed"

\* What _rollback's try/except makes of a compensating action's outcome;
\* none of them leaves the loop.
rollback_report(out) ==
    CASE out = "raise" -> "error"
      [] Truthy(out) -> "successful"
      [] OTHER -> "failed"

\* Variant: the history is not cleared.
results_kept == _results

\* self._results = [] at the head of run
reset_results == <<>>

\* successful_steps = [] at the head of run
reset_successful == <<>>

\* What the caller holds of the results property.  held says which list
\* object it is: "none" (the property was not read), "same" (the object
\* self._results is bound to) or "old" (an object run has since replaced).
\* read and content keep what the last read since run's reset reported.
View(held, read, content) == [held |-> held, read |-> read, content |-> content]

NoView == View("none", FALSE, <<>>)

\* return self._results: the caller receives the list object itself.
results(list) == View("same", TRUE, list)

\* self._results = [] binds a new list; one handed out earlier is no
\* longer the engine's.
rebound(v) == View(IF v.held = "none" THEN "none" ELSE "old", FALSE, <<>>)

\* list methods a caller can apply to the object it received
ListOps == {"clear", "pop"}

apply(op, list) == IF op = "clear" THEN <<>> ELSE SubSeq(list, 1, Len(list) - 1)

\* Variant: __init__ stores the token of the last version line.
capture_original_last(content, readable) ==
    IF readable /\ PYPROJECT_search(content)
    THEN content[CHOOSE n \in DOMAIN content :
                     /\ PYPROJECT_matches(content[n])
                     /\ \A m \in (n + 1)..Len(content) : ~PYPROJECT_matches(content[m])]
    ELSE NoText

\* The original version __init__ stores: the first version token of the
\* manifest, or None when reading it raised or no line matches.
capture_original(content, readable) ==
    IF readable /\ PYPROJECT_search(content) THEN PYPROJECT_first(content) ELSE NoText

(***************************************************************************)
(* Construction.  A VersionManager exists only when pyproject.toml does    *)
(* (otherwise __init__ raises and there is no instance to run); reading    *)
(* it for the original version may fail, which __init__ swallows.          *)
(***************************************************************************)
Init ==
    /\ kind \in Kinds
    /\ own \in (IF kind = "Generic" THEN GenericStepLists ELSE {<<>>})
    /\ manifest \in (IF kind = "VersionManager" THEN InitManifests ELSE {<<>>})
    /\ \E readable \in (IF kind = "VersionManager" THEN BOOLEAN ELSE {TRUE}) :
           _original_version =
               IF kind = "VersionManager" THEN capture_original(manifest, readable) ELSE NoText
    /\ git = [local |-> <<Commit(NoText, manifest)>>, remote |-> <<Commit(NoText, manifest)>>,
              ltags |-> {}, rtags |-> {}]
    /\ _results = <<>>
    /\ successful_steps = <<>>
    /\ steps = <<>>
    /\ i = 0
    /\ pending = <<>>
    /\ version = NoText
    /\ pc = "idle"
    /\ ret = None
    /\ runNo = 0
    /\ calls = <<>>
    /\ earlier = {}
    /\ constructed = manifest
    /\ before = manifest
    /\ view = NoView
    /\ foreign = <<>>
    /\ repo_before = git

(***************************************************************************)
(* run: reset, validation, step list                                       *)
(***************************************************************************)
RunBegin ==
    /\ pc = "idle"
    /\ runNo < MaxRuns
    /\ \E v \in (IF kind = "VersionManager" THEN Versions ELSE {NoText}),
          verdict \in (IF kind = "Generic" THEN {"pass", "fail"} ELSE {"pass"}) :
        LET n == runNo + 1
            val == _validate_input(kind, v, verdict)
            validation_result == StepResult(Step("validate", 0, None), val = "pass", None, n)
            fetched == IF val = "pass" THEN _get_steps(kind, own) ELSE <<>>
        IN  /\ runNo' = n
            /\ version' = v
            /\ _results' = IF val = "raise" THEN reset_results
                          ELSE Append(reset_results, validation_result)
            /\ successful_steps' = reset_successful
            /\ steps' = fetched
            /\ calls' = <<Event("_validate_input", 0, 0, val)>>
                        \o (IF val = "pass" THEN <<Event("_get_steps", 0, 0, None)>> ELSE <<>>)
            /\ earlier' = earlier \cup SucceededNow
            /\ before' = manifest
            /\ repo_before' = git
            /\ view' = rebound(view)
            /\ pending' = <<>>
            /\ i' = 1
            /\ pc' = IF val = "pass" /\ fetched # <<>> THEN "loop" ELSE "idle"
            /\ ret' = CASE val = "raise" -> "raised"
                        [] val = "fail" -> "False"
                        [] val = "pass" /\ fetched = <<>> -> "True"
                        [] OTHER -> None
    /\ UNCHANGED << kind, own, _original_version, manifest, git, constructed, foreign >>

(***************************************************************************)
(* run: one iteration of  for step in steps                                *)
(***************************************************************************)
ExecuteStep ==
    /\ pc = "loop"
    /\ \E fail \in 0..Ways(steps[i].func) :
        LET step == steps[i]
            e == Call(step.func, version, _original_version, fail, manifest, git)
            result == _execute_step(step, e.out, runNo)
            called == Append(calls, Event("func", step.description, fail, e.out))
            executed == record_success(successful_steps, result)
            roll == ~result.success /\ any_rollback(executed)
            todo == IF roll THEN reversed(executed) ELSE <<>>
        IN  /\ manifest' = e.manifest
            /\ git' = e.git
            /\ _results' = Append(_results, result)
            /\ successful_steps' = executed
            /\ calls' = IF roll THEN Append(called, Event("_rollback", 0, 0, None)) ELSE called
            /\ pending' = todo
            /\ i' = IF result.success /\ i < Len(steps) THEN i + 1 ELSE i
            /\ pc' = CASE result.success /\ i < Len(steps) -> "loop"
                       [] ~result.success /\ todo # <<>> -> "rollback"
                       [] OTHER -> "idle"
            /\ ret' = CASE result.success /\ i < Len(steps) -> None
                        [] ~result.success /\ todo # <<>> -> None
                        [] result.success -> "True"
                        [] OTHER -> "False"
    /\ UNCHANGED << kind, own, _original_version, steps, version, runNo, earlier,
                    constructed, before, repo_before, view, foreign >>

(***************************************************************************)
(* _rollback: one iteration of  for result in reversed(executed_steps).   *)
(* An outcome the try/except did not catch would leave _rollback and run   *)
(* ("escaped"); rollback_report yields none.                               *)
(***************************************************************************)
RollbackStep ==
    /\ pc = "rollback"
    /\ LET step == Head(pending).step
           has == step.rollback_func # None
       IN \E fail \in 0..(IF has THEN Ways(step.rollback_func) ELSE 0) :
            LET e == IF has
                     THEN Call(step.rollback_func, version, _original_version, fail,
                               manifest, git)
                     ELSE Effect(None, manifest, git)
                escaped == has /\ rollback_report(e.out) = "escaped"
                rest == IF escaped THEN <<>> ELSE Tail(pending)
            IN  /\ manifest' = e.manifest
                /\ git' = e.git
                /\ calls' = IF has
                            THEN Append(calls, Event("rollback_func", step.description, fail, e.out))
                            ELSE calls
                /\ pending' = rest
                /\ pc' = IF rest = <<>> THEN "idle" ELSE "rollback"
                /\ ret' = CASE escaped -> "raised"
                            [] rest = <<>> -> "False"
                            [] OTHER -> None
    /\ UNCHANGED << kind, own, _original_version, _results, successful_steps, steps, i,
                    version, runNo, earlier, constructed, before, repo_before, view, foreign >>

Next == RunBegin \/ ExecuteStep \/ RollbackStep

Spec == Init /\ [][Next]_vars

(***************************************************************************)
(* The caller between runs: reading the results property, and using the    *)
(* list it returned.                                                       *)
(***************************************************************************)
\* manager.results, read for the first time since the last run began
ReadResults ==
    /\ pc = "idle"
    /\ ~view.read
    /\ view' = results(_results)
    /\ UNCHANGED << kind, own, _original_version, manifest, git, _results,
                    successful_steps, steps, i, pending, version, pc, ret, runNo, calls,
                    earlier, constructed, before, repo_before, foreign >>

\* The caller applies a list method to the object a read returned.  That
\* object is the one self._results is bound to, so the method acts on the
\* engine's history.
CallerMutates ==
    /\ pc = "idle"
    /\ view.held = "same"
    /\ _results # <<>>
    /\ \E op \in ListOps : _results' = apply(op, _results)
    /\ UNCHANGED << kind, own, _original_version, manifest, git, successful_steps, steps,
                    i, pending, version, pc, ret, runNo, calls, earlier, constructed,
                    before, repo_before, view, foreign >>

NextCaller == Next \/ ReadResults \/ CallerMutates

SpecCaller == Init /\ [][NextCaller]_vars

(***************************************************************************)
(* What the log says about the current or last run                         *)
(***************************************************************************)
\* The steps whose forward action was called, in call order, and the steps
\* whose compensating action was called, in call order.
Forward == CallsOf("func")
Compensated == CallsOf("rollback_func")
StepsOf(events) == [k \in DOMAIN events |-> events[k].step]

\* A run has ended and none is in progress.
Returned == pc = "idle" /\ runNo > 0

\* Step k failed after steps 1..k-1 succeeded, going by what the forward
\* actions yielded.
FailedAt(k) ==
    /\ k >= 1
    /\ Len(Forward) = k
    /\ \A n \in 1..k : Forward[n].step = n
    /\ \A n \in 1..(k - 1) : Forward[n].out = "True"
    /\ Forward[k].out # "True"

\* The steps among 1..n that have a compensating action, latest first.
Compensable[n \in 0..(MaxSteps + 1)] ==
    IF n = 0 THEN <<>>
    ELSE (IF steps[n].rollback_func # None THEN <<n>> ELSE <<>>) \o Compensable[n - 1]

(***************************************************************************)
(* C1.  When steps 1..k-1 succeed and step k fails, the compensating       *)
(* actions called in that run are those of the steps of 1..k-1 that have   *)
(* one, each once, in the order k-1, ..., 1; steps without one are         *)
(* skipped, and neither step k nor a later step is compensated.  While     *)
(* the rollback is under way the calls made so far are the beginning of    *)
(* that sequence.                                                          *)
(***************************************************************************)
C1_RollbackReverseOrder ==
    \A k \in 1..Len(steps) :
        FailedAt(k) =>
            /\ pc = "idle" => StepsOf(Compensated) = Compensable[k - 1]
            /\ pc = "rollback" => IsPrefix(StepsOf(Compensated), Compensable[k - 1])

\* Steps 1 (compensable), 2 (not compensable), 3 (compensable) succeeded,
\* step 4 failed, and the run ended having compensated 3 and then 1.
C1_Witness ==
    /\ Returned
    /\ FailedAt(4)
    /\ steps[2].rollback_func = None
    /\ steps[4].rollback_func # None
    /\ StepsOf(Compensated) = <<3, 1>>

(***************************************************************************)
(* C2.  Rollback is best effort: when a compensating action returns a      *)
(* falsy value or raises, every earlier successful step that has a         *)
(* compensating action still has it called afterwards, and run returns     *)
(* False rather than letting the error out.                                *)
(***************************************************************************)
C2_BestEffortRollback ==
    Returned =>
        \A p \in DOMAIN Compensated :
            Compensated[p].out # "True" =>
                /\ ret = "False"
                /\ \A n \in 1..(Compensated[p].step - 1) :
                       steps[n].rollback_func # None =>
                           \E q \in (p + 1)..Len(Compensated) : Compensated[q].step = n

\* Steps 1, 2, 3 succeeded and step 4 failed; the compensation of step 3
\* raised, and those of steps 2 and 1 were called after it.
C2_Witness ==
    /\ Returned
    /\ FailedAt(4)
    /\ StepsOf(Compensated) = <<3, 2, 1>>
    /\ Compensated[1].out = "raise"
    /\ ret = "False"

(***************************************************************************)
(* C3.  A forward action that raises yields a StepResult with              *)
(* success = False and the exception captured; run records it as the last  *)
(* entry of the history, executes no later step, and returns False: the    *)
(* error does not reach the caller.                                        *)
(***************************************************************************)
C3_RaisedStepRecorded ==
    \A p \in DOMAIN Forward :
        Forward[p].out = "raise" =>
            /\ p = Len(Forward)
            /\ pc # "loop"
            /\ Len(_results) = p + 1
            /\ _results[p + 1].step = steps[Forward[p].step]
            /\ _results[p + 1].success = FALSE
            /\ _results[p + 1].exception # None
            /\ pc = "idle" => ret = "False"

\* The second of three steps raised and the run has returned.
C3_Witness ==
    /\ Returned
    /\ Len(steps) = 3
    /\ Len(Forward) = 2
    /\ Forward[2].out = "raise"
    /\ _results[3].exception # None

(***************************************************************************)
(* C4.  A failed validation short-circuits the run: run returns False,     *)
(* the history holds the validation result and nothing else, the step      *)
(* list is not fetched and no forward or compensating action is called;    *)
(* for the version-release process, a version that is not of the form      *)
(* MAJOR.MINOR.PATCH causes no manifest or git operation.                  *)
(***************************************************************************)
C4_ValidationShortCircuits ==
    /\ (Returned /\ calls[1].out = "fail") =>
           /\ ret = "False"
           /\ Len(_results) = 1
           /\ _results[1].step.description = 0
           /\ _results[1].success = FALSE
           /\ Len(calls) = 1
    /\ (kind = "VersionManager" /\ runNo > 0 /\ ~IsMajorMinorPatch(version)) =>
           /\ Forward = <<>>
           /\ Compensated = <<>>
           /\ manifest = before

(***************************************************************************)
(* C5.  When a step fails and no step that succeeded before it in the run  *)
(* has a compensating action (the first step failing included), rollback   *)
(* is not called and run returns False; when some earlier successful step  *)
(* has one, rollback is called exactly once.                               *)
(***************************************************************************)
C5_RollbackOnlyIfCompensable ==
    \A k \in 1..Len(steps) :
        FailedAt(k) =>
            /\ Len(CallsOf("_rollback")) = IF Compensable[k - 1] # <<>> THEN 1 ELSE 0
            /\ pc = "idle" => ret = "False"

\* Two steps without a compensating action succeeded, the third failed,
\* and the run returned False without calling rollback.
C5_Witness ==
    /\ Returned
    /\ FailedAt(3)
    /\ Compensable[2] = <<>>
    /\ CallsOf("_rollback") = <<>>
    /\ ret = "False"

(***************************************************************************)
(* C6.  run returns True exactly when validation passed and every step of  *)
(* the list returned a true value; then the history has one entry for the  *)
(* validation and one per step (4 for the version-release process), all    *)
(* successful, and no compensating action was called.                      *)
(***************************************************************************)
C6_TrueIffAllSucceeded ==
    Returned =>
        LET N == Len(_get_steps(kind, own))
            all_ok == /\ calls[1].out = "pass"
                      /\ Len(Forward) = N
                      /\ \A n \in 1..N : Forward[n].step = n /\ Forward[n].out = "True"
        IN  /\ ret = "True" <=> all_ok
            /\ ret = "True" =>
                   /\ Len(_results) = N + 1
                   /\ \A n \in DOMAIN _results : _results[n].success
                   /\ Compensated = <<>>
                   /\ kind = "VersionManager" => Len(_results) = 4

\* A version release went through: four successful entries, True returned.
C6_Witness ==
    /\ Returned
    /\ kind = "VersionManager"
    /\ ret = "True"
    /\ Len(_results) = 4
    /\ version \in git.rtags

(***************************************************************************)
(* C7.  In every state during or after a run the history is the            *)
(* validation result followed by one StepResult per attempted step in      *)
(* execution order; it is no longer than the step list plus one; at most   *)
(* one entry is unsuccessful and, if there is one, it is the last.         *)
(***************************************************************************)
C7_HistoryShape ==
    runNo > 0 =>
        /\ Len(_results) >= 1
        /\ _results[1].step.description = 0
        /\ Len(_results) = Len(Forward) + 1
        /\ \A n \in DOMAIN Forward : _results[n + 1].step = steps[Forward[n].step]
        /\ Len(_results) <= Len(_get_steps(kind, own)) + 1
        /\ \A n \in DOMAIN _results : ~_results[n].success => n = Len(_results)

(***************************************************************************)
(* C8.  Run state is reset at the start of every run: the history holds    *)
(* only entries built by the most recent run, and a rollback compensates   *)
(* only steps whose forward action succeeded in that same run.             *)
(***************************************************************************)
C8_RunStateReset ==
    /\ \A n \in DOMAIN _results : _results[n].made_in = runNo
    /\ \A p \in DOMAIN Compensated : Compensated[p].step \in SucceededNow

\* A second run rolled back while a step that had succeeded in the first
\* run did not succeed in it.
C8_Witness ==
    /\ Returned
    /\ runNo = 2
    /\ Len(_results) >= 2
    /\ Compensated # <<>>
    /\ earlier \ SucceededNow # {}

(***************************************************************************)
(* C9.  No error raised while a run is in progress reaches the caller of   *)
(* run: for every process definition and every input, run returns a        *)
(* boolean.                                                                *)
(***************************************************************************)
C9_RunReturnsBoolean == Returned => ret \in {"True", "False"}

(***************************************************************************)
(* C10.  Scenario C of the version release: the version is valid, the      *)
(* manifest update succeeded and the commit step failed at its push.       *)
(***************************************************************************)
ScenarioC ==
    /\ kind = "VersionManager"
    /\ Returned
    /\ IsMajorMinorPatch(version)
    /\ Len(Forward) >= 2
    /\ Forward[1].out = "True"
    /\ Forward[2].step = 2
    /\ Forward[2].fail = 4

\* C10 as stated: in scenario C run returns False, the manifest-update
\* compensation is called and restores the manifest's version token to the
\* original token (the one the manifest held at construction), the tag step
\* is not attempted and neither the commit nor the tag step is compensated.
C10_AsStated ==
    ScenarioC =>
        /\ ret = "False"
        /\ Len(Forward) = 2
        /\ StepsOf(Compensated) = <<1>>
        /\ VersionToken(manifest) = VersionToken(constructed)

\* C10 as amended: in scenario C run returns False, the tag step is not
\* attempted, the manifest-update compensation is the one compensating
\* action called; when it reports success, a token was captured at
\* construction and every version line of the manifest, its version token
\* included, holds that token again (it reports failure when no token was
\* captured or the manifest could not be read or written).
C10_ScenarioC ==
    ScenarioC =>
        /\ ret = "False"
        /\ Len(Forward) = 2
        /\ StepsOf(Compensated) = <<1>>
        /\ Compensated[1].out = "True" =>
               /\ _original_version # NoText
               /\ _original_version = VersionToken(constructed)
               /\ VersionToken(manifest) = _original_version
               /\ manifest = PYPROJECT_sub(_original_version, before)

\* Scenario C with version 1.2.3 on a manifest constructed at 1.0.0: the
\* compensation reported success and the token is 1.0.0 again.
C10_Witness ==
    /\ ScenarioC
    /\ version = V123
    /\ Compensated[1].out = "True"
    /\ VersionToken(constructed) = V100
    /\ VersionToken(manifest) = V100
    /\ Len(git.local) = 2


(***************************************************************************)
(* Another actor of the shared remote: it pushes a commit on top of the    *)
(* remote branch at any moment, run in progress or not.  The program       *)
(* never fetches, so the local branch does not see it.                     *)
(***************************************************************************)
\* A log in which the commit step has pushed and its compensating action
\* has not been called yet.
BetweenPushAndRollback(log) ==
    /\ \E n \in DOMAIN log :
           log[n].op = "func" /\ log[n].step = 2 /\ log[n].out = "True"
    /\ \A n \in DOMAIN log : ~(log[n].op = "rollback_func" /\ log[n].step = 2)

\* The message of the other actor's k-th commit.
OtherMsg(k) == [n \in 1..k |-> "o"]

OtherPush ==
    /\ kind = "VersionManager"
    /\ Len(foreign) < MaxOtherPushes
    /\ LET c == Commit(OtherMsg(Len(foreign) + 1), Last(git.remote).tree)
       IN /\ git' = [git EXCEPT !.remote = Append(@, c)]
          /\ foreign' = Append(foreign, [commit |-> c, run |-> runNo,
                                       window |-> BetweenPushAndRollback(calls)])
    /\ UNCHANGED << kind, own, _original_version, manifest, _results, successful_steps,
                    steps, i, pending, version, pc, ret, runNo, calls, earlier,
                    constructed, before, repo_before, view >>

NextShared == Next \/ OtherPush

SpecShared == Init /\ [][NextShared]_vars

(***************************************************************************)
(* C11.  The results property is a read-only view of the last run's        *)
(* history: between two calls of run it reports the same content every     *)
(* time it is read, whatever the caller does with the value a read         *)
(* returned.  Stated on the states between runs: once the property has     *)
(* been read, what it would report now is what that read reported.         *)
(***************************************************************************)
C11_ResultsReadOnly ==
    (pc = "idle" /\ view.read) => _results = view.content


(***************************************************************************)
(* C12.  A forward action can fail in two ways.  When it returns a falsy   *)
(* value (False or None) its StepResult has success = False and no         *)
(* exception; when it raises, success = False and the exception is         *)
(* recorded.  Either way the run executes no later step, calls _rollback   *)
(* exactly when an earlier successful step has a compensating action,      *)
(* and returns False.                                                      *)
(***************************************************************************)
C12_TwoFailureChannels ==
    \A p \in DOMAIN Forward :
        Forward[p].out # "True" =>
            /\ Len(_results) = p + 1
            /\ _results[p + 1].success = FALSE
            /\ Forward[p].out \in {"False", "None"} => _results[p + 1].exception = None
            /\ Forward[p].out = "raise" => _results[p + 1].exception # None
            /\ p = Len(Forward)
            /\ pc # "loop"
            /\ Len(CallsOf("_rollback")) = (IF Compensable[p - 1] # <<>> THEN 1 ELSE 0)
            /\ pc = "idle" => ret = "False"

\* The third step returned None after two compensable steps succeeded: no
\* exception is recorded, _rollback was called and the run returned False.
C12_Witness ==
    /\ Returned
    /\ Len(Forward) = 3
    /\ Forward[3].out = "None"
    /\ _results[4].success = FALSE
    /\ _results[4].exception = None
    /\ Len(CallsOf("_rollback")) = 1
    /\ StepsOf(Compensated) = <<2, 1>>
    /\ ret = "False"


(***************************************************************************)
(* The per-run state machine.  Validating lies inside RunBegin, and the    *)
(* Failed that precedes RollingBack inside ExecuteStep; the phases seen    *)
(* between steps are the others.  A run that an exception left is in none  *)
(* of them.                                                                *)
(***************************************************************************)
Phase ==
    CASE pc = "loop" -> "Executing"
      [] pc = "rollback" -> "RollingBack"
      [] runNo = 0 -> "Idle"
      [] ret = "True" -> "Succeeded"
      [] ret = "False" -> "Failed"
      [] OTHER -> "Outside"

\* Idle -> Validating -> Failed | Executing | Succeeded (no step), from Idle
\* or from the terminal phase of the run before;
\* Executing -> Executing | Succeeded | Failed | (Failed ->) RollingBack;
\* RollingBack -> RollingBack | Failed.
PhaseSteps ==
    ({"Idle", "Succeeded", "Failed"} \X {"Failed", "Executing", "Succeeded"})
    \cup ({"Executing"} \X {"Executing", "Succeeded", "Failed", "RollingBack"})
    \cup ({"RollingBack"} \X {"RollingBack", "Failed"})

PhaseStep == <<Phase, Phase'>> \in PhaseSteps

\* Forward actions are called in list order, none after a step failed and
\* none after a compensating action; when the run has returned no
\* compensating action is left to call.
Ordered ==
    /\ \A n \in DOMAIN Forward : Forward[n].step = n
    /\ \A n \in DOMAIN Forward : Forward[n].out # "True" => n = Len(Forward)
    /\ \A a, b \in DOMAIN calls :
           (a < b /\ calls[a].op = "rollback_func") => calls[b].op # "func"
    /\ pc = "idle" => pending = <<>>
    /\ pc = "rollback" => Forward # <<>> /\ Last(Forward).out # "True"

(***************************************************************************)
(* C13.  Every run follows the state machine Idle -> Validating ->         *)
(* Failed, or Validating -> Executing(1..N) -> Succeeded, or               *)
(* Executing(i) -> Failed -> RollingBack -> Failed: every step of the      *)
(* program is one of the machine's transitions, forward actions run in     *)
(* list order, all of them before any compensating action, none after a    *)
(* failed step, and the compensating actions are over when run returns.    *)
(***************************************************************************)
C13_RunStateMachine ==
    []Ordered /\ [][PhaseStep]_vars


\* The commits on the remote branch.
RemoteCommits == {git.remote[n] : n \in DOMAIN git.remote}

(***************************************************************************)
(* C14.  The rollback of the commit step does not look at the remote.      *)
(* When another actor pushed a commit after the commit step's push and     *)
(* before the compensating action's push --force of the same run (the      *)
(* tag step having failed), and git reset and git push --force themselves  *)
(* do not fail, the compensating action reports success and the other      *)
(* actor's commit is no longer on the remote branch.                       *)
(***************************************************************************)
C14_ForcePushDropsForeignCommit ==
    kind = "VersionManager" =>
        \A k \in DOMAIN foreign :
            (foreign[k].run = runNo /\ foreign[k].window) =>
                \A p \in DOMAIN Compensated :
                    (Compensated[p].step = 2 /\ Compensated[p].fail = 0) =>
                        /\ Compensated[p].out = "True"
                        /\ foreign[k].commit \notin RemoteCommits

\* The commit step pushed, another actor pushed on top of it, the tag step
\* failed, and the rollback of the commit step reported success: the run
\* has returned False and the remote branch is back at the initial commit.
C14_Witness ==
    /\ kind = "VersionManager"
    /\ Returned
    /\ ret = "False"
    /\ FailedAt(3)
    /\ Len(foreign) = 1
    /\ foreign[1].run = runNo
    /\ foreign[1].window
    /\ StepsOf(Compensated) = <<2, 1>>
    /\ Compensated[1].out = "True"
    /\ foreign[1].commit \notin RemoteCommits
    /\ Len(git.remote) = 1


\* The next compensating action _rollback calls is that of the manifest
\* update, and __init__ stored no original version.
RollbackWithoutOriginal ==
    /\ kind = "VersionManager"
    /\ pc = "rollback"
    /\ Head(pending).step.rollback_func = "_rollback_version_update"
    /\ _original_version = NoText

(***************************************************************************)
(* C15.  When __init__ could store no original version, the compensating   *)
(* action of the manifest update is a reported no-op: the call leaves the  *)
(* manifest as it is and returns False without raising; the rollback loop  *)
(* ends normally with it (it is the last compensation) and run returns     *)
(* False.                                                                  *)
(***************************************************************************)
C15_NoOriginalNoOp ==
    [][RollbackWithoutOriginal =>
          /\ manifest' = manifest
          /\ git' = git
          /\ Last(calls').op = "rollback_func"
          /\ Last(calls').step = 1
          /\ Last(calls').out = "False"
          /\ pc' = "idle"
          /\ ret' = "False"]_vars

\* __init__ could not read the manifest; the update to the new version
\* succeeded, the commit step failed, the compensation of the update was
\* called and returned False, and the manifest still holds the new version.
C15_Witness ==
    /\ kind = "VersionManager"
    /\ _original_version = NoText
    /\ Returned
    /\ FailedAt(2)
    /\ StepsOf(Compensated) = <<1>>
    /\ Compensated[1].out = "False"
    /\ ret = "False"
    /\ manifest = PYPROJECT_sub(version, before)
    /\ manifest # before


(***************************************************************************)
(* Termination.  run's for loop and _rollback's for loop go on as long as  *)
(* the action they called returns or raises: a step of either loop that    *)
(* can be taken is taken.                                                  *)
(***************************************************************************)
FairSpec == Spec /\ WF_vars(ExecuteStep) /\ WF_vars(RollbackStep)

\* At most N forward actions and at most N-1 compensating actions are
\* called in a run of N steps.
WithinBounds ==
    /\ Len(Forward) <= Len(steps)
    /\ Len(Compensated) <= (IF steps = <<>> THEN 0 ELSE Len(steps) - 1)

\* A run that has ended has returned Succeeded or Failed.
EndedInOutcome == Returned => Phase \in {"Succeeded", "Failed"}

\* A run in progress ends.
RunEnds == (pc # "idle") ~> (pc = "idle")

(***************************************************************************)
(* C16.  Every run terminates: as long as each action called returns or    *)
(* raises, a run of N steps reaches Succeeded or Failed and returns,       *)
(* having called at most N forward actions and at most N-1 compensating    *)
(* actions.                                                                *)
(***************************************************************************)
C16_EveryRunTerminates ==
    []WithinBounds /\ []EndedInOutcome /\ RunEnds


\* A run of the version release has returned False and every compensating
\* action it called returned True.
FailedAndCompensated ==
    /\ kind = "VersionManager"
    /\ Returned
    /\ ret = "False"
    /\ \A p \in DOMAIN Compensated : Compensated[p].out = "True"

\* The failing step was the commit step and git commit had succeeded in it
\* (git push failed or was rejected).
CommitMadeThenFailed ==
    /\ FailedAt(2)
    /\ Forward[2].fail \in {0, 4}

\* The failing step was the tag step and git tag had succeeded in it (the
\* push of the tag failed).
TagMadeThenFailed ==
    /\ FailedAt(3)
    /\ Forward[3].fail = 2

(***************************************************************************)
(* C17 as stated.  A failed run of the version release leaves no residue   *)
(* of the failing step: when run returns False and every compensating      *)
(* action called succeeded, the local repository has no commit and no tag  *)
(* that was not there when the run began.                                  *)
(***************************************************************************)
C17_AsStated ==
    FailedAndCompensated =>
        /\ IsPrefix(git.local, repo_before.local)
        /\ git.ltags \subseteq repo_before.ltags

(***************************************************************************)
(* C17 amended.  When run returns False and every compensating action      *)
(* called succeeded, what the steps that succeeded committed or tagged is  *)
(* gone from the local repository, but what the failing step did before    *)
(* it failed stays: the local branch is the one the run found, plus the    *)
(* commit of the new version when the commit step failed after git commit  *)
(* succeeded; the local tags are those the run found, plus the tag of the  *)
(* new version when the tag step failed after git tag succeeded.           *)
(***************************************************************************)
C17_ResidueOfFailingStep ==
    FailedAndCompensated =>
        /\ git.local = IF CommitMadeThenFailed
                       THEN Append(repo_before.local,
                                   Commit(version, PYPROJECT_sub(version, before)))
                       ELSE repo_before.local
        /\ git.ltags = IF TagMadeThenFailed
                       THEN repo_before.ltags \cup {version}
                       ELSE repo_before.ltags

\* The commit step failed at git push; the compensation of the manifest
\* update succeeded and restored the manifest, and the commit of the new
\* version is still on the local branch.
C17_Witness ==
    /\ FailedAndCompensated
    /\ CommitMadeThenFailed
    /\ Forward[2].fail = 4
    /\ StepsOf(Compensated) = <<1>>
    /\ manifest = before
    /\ Len(git.local) = Len(repo_before.local) + 1
    /\ Last(git.local).msg = version
    /\ Last(git.local).tree # manifest


\* A run of the version release has failed after its manifest update
\* succeeded, and the compensating action of the update returned True.
UpdateCompensated ==
    /\ kind = "VersionManager"
    /\ Returned
    /\ ret = "False"
    /\ Forward # <<>>
    /\ Forward[1].out = "True"
    /\ \E p \in DOMAIN Compensated :
           Compensated[p].step = 1 /\ Compensated[p].out = "True"

(***************************************************************************)
(* C18 as stated.  In any sequence of runs on one instance, when a run     *)
(* fails after its manifest update succeeded and the compensating action   *)
(* of the update reports success, the manifest's version token after the   *)
(* run is the one the manifest held just before that run, also when an     *)
(* earlier run succeeded and changed the token.  Stated for the version   *)
(* arguments validation is meant to accept, digits.digits.digits.          *)
(***************************************************************************)
C18_AsStated ==
    (UpdateCompensated /\ IsMajorMinorPatch(version)) =>
        VersionToken(manifest) = VersionToken(before)

(***************************************************************************)
(* C18 amended.  In that case every version line of the manifest that      *)
(* the manifest pattern matches holds the token __init__ stored, which is  *)
(* the token the manifest held at construction: the token of before the    *)
(* run only as long as no earlier run on the instance changed it.  When    *)
(* the version passed to run is digits.digits.digits, that is the          *)
(* manifest's version token after the run.                                 *)
(***************************************************************************)
C18_RestoresConstructionToken ==
    UpdateCompensated =>
        /\ _original_version = VersionToken(constructed)
        /\ \A n \in DOMAIN manifest :
               PYPROJECT_matches(manifest[n]) => manifest[n] = VersionToken(constructed)
        /\ IsMajorMinorPatch(version) =>
               /\ VersionToken(manifest) = VersionToken(constructed)
               /\ \A n \in DOMAIN manifest : manifest[n] = VersionToken(constructed)

\* The first run released 1.2.3; the second run failed at its commit step
\* and the compensation of its update reported success: the manifest is
\* back at 1.0.0, the token of construction, not at 1.2.3.
C18_Witness ==
    /\ UpdateCompensated
    /\ runNo = 2
    /\ 3 \in earlier
    /\ IsMajorMinorPatch(version)
    /\ VersionToken(constructed) = V100
    /\ VersionToken(before) = V123
    /\ VersionToken(manifest) = V100


(***************************************************************************)
(* C19.  In the version release the compensating action of the tag step    *)
(* (delete the local and the remote tag) is never called: the tag step is  *)
(* the last step, and _rollback is given only the steps that succeeded     *)
(* before a later step failed.                                             *)
(***************************************************************************)
C19_TagRollbackNeverCalled ==
    kind = "VersionManager" =>
        /\ \A p \in DOMAIN Compensated :
               /\ Compensated[p].step # 3
               /\ steps[Compensated[p].step].rollback_func # "_rollback_git_tag"
        /\ \A n \in DOMAIN pending : pending[n].step.rollback_func # "_rollback_git_tag"

\* The tag step failed after git tag succeeded; the rollback called the
\* compensating actions of the commit and of the update, and the tag is
\* still in the local repository.
C19_Witness ==
    /\ kind = "VersionManager"
    /\ Returned
    /\ FailedAt(3)
    /\ Forward[3].fail = 2
    /\ steps[3].rollback_func = "_rollback_git_tag"
    /\ StepsOf(Compensated) = <<2, 1>>
    /\ version \in git.ltags

====
